---- MODULE Spec2Model ----
(***************************************************************************)
(* The local judge of cses_local: submit._run, submit._create_process and  *)
(* submit._get_verdict, with the child process, the wall clock and the     *)
(* spooled output file as the environment.                                 *)
(*                                                                         *)
(* Text is a sequence of one-character strings.  Time is counted in ticks  *)
(* of the wall clock, memory in megabytes, output size in bytes.           *)
(***************************************************************************)
EXTENDS Integers, Sequences, FiniteSets, TLC

\* ------------------------------------------------------------- bounds
MaxTests == 2      \* most test cases in an archive
MaxRss == 3        \* largest resident-memory sample, in MB
MaxDt == 2         \* most ticks the clock advances over one sleep
MaxLen == 3        \* longest text the verdict function is applied to

\* ------------------------------------------------------ program constants
_MEGABYTE == 1024 * 1024
_OUTPUT_LIMIT == 500 * _MEGABYTE

_OLE == "OUTPUT LIMIT EXCEEDED"
_TLE == "TIME LIMIT EXCEEDED"
_MLE == "MEMORY LIMIT EXCEEDED"
_RTE == "RUNTIME ERROR"
_WA == "WRONG ANSWER"
_A == "ACCEPTED"

\* Python's None where the code holds an exit status (Popen.poll() of a
\* running child, rcode before it is assigned).  None != 0 is True in Python,
\* and this integer differs from 0 and from every exit status of the model.
None == 0 - 1000
\* float() raising ValueError; every limit the model parses is positive.
ValueError == 0 - 1
\* exit statuses: a child's own exit codes, and death by SIGTERM, which
\* psutil's wait() reports as the negated signal number
ExitCodes == {0, 1}
Terminated == 0 - 15

\* --------------------------------------------------------------- text
Whitespace == {" ", "\n"}
Digits == {"0", "1", "2", "3", "4", "5", "6", "7", "8", "9"}

\* str.split() without arguments: the maximal runs of non-whitespace
\* characters, in order; leading, trailing and repeated whitespace give no
\* empty token.
RECURSIVE SplitFrom(_, _, _)
SplitFrom(s, i, cur) ==
    IF i > Len(s)
    THEN IF cur = <<>> THEN <<>> ELSE <<cur>>
    ELSE IF s[i] \in Whitespace
         THEN IF cur = <<>>
              THEN SplitFrom(s, i + 1, <<>>)
              ELSE <<cur>> \o SplitFrom(s, i + 1, <<>>)
         ELSE SplitFrom(s, i + 1, Append(cur, s[i]))

\* mutant: str.split(" "), which cuts at every single space and only there
RECURSIVE SplitAtSpace(_, _, _)
SplitAtSpace(s, i, cur) ==
    IF i > Len(s) THEN <<cur>>
    ELSE IF s[i] = " "
         THEN <<cur>> \o SplitAtSpace(s, i + 1, <<>>)
         ELSE SplitAtSpace(s, i + 1, Append(cur, s[i]))

split_at_space(s) == SplitAtSpace(s, 1, <<>>)

split(s) == SplitFrom(s, 1, <<>>)

\* str.strip() as float() applies it to its argument
RECURSIVE lstrip(_)
lstrip(s) == IF s # <<>> /\ Head(s) \in Whitespace THEN lstrip(Tail(s)) ELSE s
RECURSIVE rstrip(_)
rstrip(s) ==
    IF s # <<>> /\ s[Len(s)] \in Whitespace
    THEN rstrip(SubSeq(s, 1, Len(s) - 1))
    ELSE s

DigitValue(c) ==
    CASE c = "0" -> 0 [] c = "1" -> 1 [] c = "2" -> 2 [] c = "3" -> 3
      [] c = "4" -> 4 [] c = "5" -> 5 [] c = "6" -> 6 [] c = "7" -> 7
      [] c = "8" -> 8 [] c = "9" -> 9

RECURSIVE IntValue(_)
IntValue(s) ==
    IF s = <<>> THEN 0
    ELSE 10 * IntValue(SubSeq(s, 1, Len(s) - 1)) + DigitValue(s[Len(s)])

\* float(text) for the decimal notations of the model: optional surrounding
\* whitespace, digits, and optionally a point followed by zeros (every limit
\* of the model is a whole number of seconds or megabytes).  Any other
\* character - a unit suffix such as " s" or " MB" - raises ValueError.
float(text) ==
    LET t == rstrip(lstrip(text))
        dots == {i \in 1..Len(t) : t[i] = "."}
        ip == IF dots = {} THEN t
              ELSE SubSeq(t, 1, (CHOOSE i \in dots : TRUE) - 1)
        fp == IF dots = {} THEN <<>>
              ELSE SubSeq(t, (CHOOSE i \in dots : TRUE) + 1, Len(t))
    IN IF /\ Cardinality(dots) <= 1
          /\ ip # <<>>
          /\ \A i \in 1..Len(ip) : ip[i] \in Digits
          /\ \A i \in 1..Len(fp) : fp[i] = "0"
       THEN IntValue(ip)
       ELSE ValueError

\* ------------------------------------------------------ _get_verdict
\* mutant: the time check placed before the exit-status check
_get_verdict_time_first(time_limit, time_executed, memory_limit, memory_usage, rc, size, output, expected) ==
    IF memory_usage > memory_limit THEN _MLE
    ELSE IF time_executed > time_limit THEN _TLE
    ELSE IF rc # 0 THEN _RTE
    ELSE IF size > _OUTPUT_LIMIT THEN _OLE
    ELSE IF split(expected) # split(output) THEN _WA
    ELSE _A

\* mutant: the exit-status check placed before the memory check
_get_verdict_rc_first(time_limit, time_executed, memory_limit, memory_usage, rc, size, output, expected) ==
    IF rc # 0 THEN _RTE
    ELSE IF memory_usage > memory_limit THEN _MLE
    ELSE IF time_executed > time_limit THEN _TLE
    ELSE IF size > _OUTPUT_LIMIT THEN _OLE
    ELSE IF split(expected) # split(output) THEN _WA
    ELSE _A

\* submit._get_verdict: memory, exit status, time, output size, then the
\* token comparison.  size is os.fstat(output_file).st_size and output is
\* what output_file.read() returns after the rewind.
_get_verdict(time_limit, time_executed, memory_limit, memory_usage, rc, size, output, expected) ==
    IF memory_usage > memory_limit THEN _MLE
    ELSE IF rc # 0 THEN _RTE
    ELSE IF time_executed > time_limit THEN _TLE
    ELSE IF size > _OUTPUT_LIMIT THEN _OLE
    ELSE IF split(expected) # split(output) THEN _WA
    ELSE _A

\* ------------------------------------------------------------ inputs
\* time and memory limit texts of a manifest entry: bare numbers, and the
\* forms data._download_manifest_data stores ("1.00 s", "2 MB")
TimeLimitTexts ==
    { <<"1">>, <<"2", ".", "0">>, <<"1", ".", "0", "0", " ", "s">> }
MemoryLimitTexts == { <<"2">>, <<"2", " ", "M", "B">> }

DigitOf(i) == CASE i % 3 = 0 -> "0" [] i % 3 = 1 -> "1" [] i % 3 = 2 -> "2"

\* the archive of n test cases: test i feeds the digit of i and expects it back
Archive(n) ==
    [i \in 1..n |-> [in |-> <<DigitOf(i)>>, out |-> <<DigitOf(i)>>]]

\* what a child may have written when the verdict is derived
ChildOutputs == { <<"1">>, <<"2", "\n">>, <<"0", " ", "1">> }

\* mutant: the latest sample instead of the larger one
Latest(a, b) == b
Max(a, b) == IF a >= b THEN a ELSE b

\* ------------------------------------------------------------- paths
\* A path is the sequence <<directory, stem, suffix>>; the directory of a
\* relative path is "".  The empty sequence stands for Python's None where
\* the code holds a path or nothing.
NoPath == <<>>
COMPILED_LANGUAGE_PLACEHOLDER == <<"", "COMPILED_LANGUAGE_PREPROCESS", "">>
with_suffix(path, suffix) == <<path[1], path[2], suffix>>
\* Path.resolve(): a relative path is made absolute on the working directory
Cwd == "/work/"
resolve(path) == IF path[1] = "" THEN <<Cwd, path[2], path[3]>> ELSE path
\* Path(which(name)) for a name the search path resolves
BinPath(name) == <<"/usr/bin/", name, "">>

\* the artifacts _run is started with: a compiled target with the
\* placeholder, or a source file with the path of its interpreter
RunArtifacts ==
    { <<(<<Cwd, "main", "">>), COMPILED_LANGUAGE_PLACEHOLDER>>,
      <<(<<Cwd, "main", ".py">>), BinPath("python")>> }

\* ------------------------------------------------------------- state
VARIABLES
    manifest_entry,  \* [memory_limit, time_limit]: the texts of the entry
    archive_exists,  \* testcases_path.exists()
    archive,         \* the test cases stored in the archive
    pc,              \* position of the flow of control
    ret,             \* what _run has returned: "pending", "list", "None", "raised"
    raised,          \* the exception that left _run, "none" when there is none
    memory_limit, time_limit,   \* _run: the parsed limits
    test_cases,      \* _run: the extracted test cases
    results,         \* _run: the result list
    idx,             \* _run: ordinal of the test case the loop is at
    memory_usage, time_executed, rcode_run, verdict,  \* _run: locals of the loop body
    pmmusage, time_poll, rcode,  \* _create_process: locals
    returncode,      \* subproc.returncode, what Popen knows of the child
    out_size,        \* size of the spooled output file as last observed
    output,          \* text read back from the spooled output file
    signals,         \* signals sent to the current child, in order
    now,             \* wall clock, in ticks since time_start
    procs,           \* state of the child of each test case
    status,          \* exit status of the current child once it has exited
    peak_seen,       \* history: largest rss sample of the current child, in bytes
    verdictLog,      \* history: the verdict derived for each finished test
    executor, target,  \* the artifact: parameters of _run, locals of preprocess
    args,            \* _run: the argument vector of the children
    argvLog,         \* history: the argument vector of each Popen call
    fed,             \* history: how the write to the child's stdin ended
    run,             \* which call of _run this is, counting from 1
    firstAccepted,   \* history: the first call met ACCEPTED on every test case
    online,          \* submit: the online flag
    source_file,     \* the submitted file
    os_name,         \* os.name
    on_path,         \* names of the binaries which() resolves
    ppc,             \* position of control in submit and preprocess
    ci,              \* _compile_c_like: index of the compiler the loop is at
    compiled,        \* _compile_c_like: the compiled flag
    looked,          \* history: the names looked up with which(), in order
    invoked,         \* history: the compilers run and how each ended
    artifact,        \* what preprocess returned, <<>> before it returns
    namelist,        \* _extract_test_cases: archive.namelist()
    ni,              \* _extract_test_cases: index of the member the loop is at
    testcases,       \* _extract_test_cases: the list being filled
    result_rows,     \* _display_results: the results parameter
    di,              \* _display_results: index of the result the loop is at
    total_result     \* _display_results: the headline result

vars ==
    << manifest_entry, archive_exists, archive, pc, ret, raised, memory_limit,
       time_limit, test_cases, results, idx, memory_usage, time_executed,
       rcode_run, verdict, pmmusage, time_poll, rcode, returncode, out_size,
       output, signals, now, procs, status, peak_seen, verdictLog, executor,
       target, args, argvLog, fed, run, firstAccepted, online, source_file,
       os_name, on_path, ppc, ci, compiled, looked, invoked, artifact, namelist, ni, testcases,
       result_rows, di, total_result >>

\* submit and preprocess, _extract_test_cases, _display_results
submitVars == << online, source_file, os_name, on_path, ppc, ci, compiled,
                 looked, invoked, artifact >>
extractVars == << namelist, ni, testcases >>
displayVars == << result_rows, di, total_result >>

\* the calls of _run in succession
twiceVars == << run, firstAccepted >>

\* _run and _create_process
judgeVars == << twiceVars, manifest_entry, archive_exists, archive, pc, ret, raised,
                memory_limit, time_limit, test_cases, results, args, idx,
                memory_usage, time_executed, rcode_run, verdict, output,
                pmmusage, time_poll, rcode, returncode, out_size, signals,
                now, peak_seen, procs, status, verdictLog, argvLog, fed >>

inputVars == << manifest_entry, archive_exists, archive, executor, target,
                twiceVars, submitVars, extractVars, displayVars >>
runVars == << memory_limit, time_limit, test_cases, results, args >>
bodyVars == << memory_usage, time_executed, rcode_run, verdict, output >>
procVars ==
    << pmmusage, time_poll, rcode, returncode, out_size, signals, now, peak_seen >>

Alive(i) == procs[i] \in {"running", "killed"}
Spawned == {i \in 1..MaxTests : procs[i] # "unborn"}

\* the parts of the state a specification does not use
SubmitIdle ==
    /\ online = FALSE
    /\ source_file = NoPath
    /\ os_name = "posix"
    /\ on_path = {}
    /\ ppc = "idle"
    /\ ci = 0
    /\ compiled = FALSE
    /\ looked = <<>>
    /\ invoked = <<>>
    /\ artifact = <<>>
ExtractIdle ==
    /\ namelist = <<>>
    /\ ni = 0
    /\ testcases = <<>>
DisplayIdle ==
    /\ result_rows = <<>>
    /\ di = 0
    /\ total_result = ""

\* no run has been started
RunIdle ==
    /\ manifest_entry = [memory_limit |-> <<"2">>, time_limit |-> <<"1">>]
    /\ archive_exists = TRUE
    /\ archive = <<>>
    /\ pc = "idle"
    /\ ret = "pending"
    /\ raised = "none"
    /\ memory_limit = 0
    /\ time_limit = 0
    /\ test_cases = <<>>
    /\ results = <<>>
    /\ args = <<>>
    /\ idx = 0
    /\ memory_usage = 0
    /\ time_executed = 0
    /\ rcode_run = None
    /\ verdict = ""
    /\ pmmusage = 0
    /\ time_poll = 0
    /\ rcode = None
    /\ returncode = None
    /\ out_size = 0
    /\ output = <<>>
    /\ signals = <<>>
    /\ now = 0
    /\ procs = [i \in 1..MaxTests |-> "unborn"]
    /\ status = None
    /\ peak_seen = 0
    /\ verdictLog = <<>>
    /\ argvLog = <<>>
    /\ fed = "none"
    /\ run = 1
    /\ firstAccepted = FALSE

Init ==
    /\ SubmitIdle
    /\ ExtractIdle
    /\ DisplayIdle
    /\ \E a \in RunArtifacts : target = a[1] /\ executor = a[2]
    /\ args = <<>>
    /\ argvLog = <<>>
    /\ fed = "none"
    /\ run = 1
    /\ firstAccepted = FALSE
    /\ manifest_entry \in
         [memory_limit : MemoryLimitTexts, time_limit : TimeLimitTexts]
    /\ archive_exists \in BOOLEAN
    /\ archive \in {Archive(n) : n \in 0..MaxTests}
    /\ pc = "parse"
    /\ ret = "pending"
    /\ raised = "none"
    /\ memory_limit = 0
    /\ time_limit = 0
    /\ test_cases = <<>>
    /\ results = <<>>
    /\ idx = 0
    /\ memory_usage = 0
    /\ time_executed = 0
    /\ rcode_run = None
    /\ verdict = ""
    /\ pmmusage = 0
    /\ time_poll = 0
    /\ rcode = None
    /\ returncode = None
    /\ out_size = 0
    /\ output = <<>>
    /\ signals = <<>>
    /\ now = 0
    /\ procs = [i \in 1..MaxTests |-> "unborn"]
    /\ status = None
    /\ peak_seen = 0
    /\ verdictLog = <<>>

\* ---------------------------------------------------------- helpers
\* an exception that nothing in _run or _create_process catches leaves _run
\* through the with block (the child, if spawned, is neither stopped nor
\* waited for) and is caught and printed by submit()
Raise(e) ==
    /\ pc' = "done"
    /\ ret' = "raised"
    /\ raised' = e

\* the Popen object of a call going out of scope: the runtime polls the
\* child once, without blocking, and so reaps it if it has already died
Drop(p) == IF p = "zombie" THEN "reaped" ELSE p

\* "return (a, b, c)" of _create_process, received by the tuple assignment
\* of _run; st is the state the current child is left in
Return(a, b, c, st) ==
    /\ memory_usage' = a
    /\ time_executed' = b
    /\ rcode_run' = c
    /\ procs' = [procs EXCEPT ![idx] = Drop(st)]
    /\ pc' = "verdict"

\* ----------------------------------------------------------- _run
\* lines 103-105: the limits, memory first
Parse ==
    /\ pc = "parse"
    /\ LET m == float(manifest_entry.memory_limit)
           t == float(manifest_entry.time_limit)
       IN IF m = ValueError \/ t = ValueError
          THEN /\ Raise("ValueError")
               /\ UNCHANGED << memory_limit, time_limit >>
          ELSE /\ memory_limit' = m
               /\ time_limit' = t
               /\ pc' = "extract"
               /\ UNCHANGED << ret, raised >>
    /\ UNCHANGED << inputVars, test_cases, results, args, idx, bodyVars,
                    procVars, procs, status, verdictLog, argvLog, fed >>

\* mutant: the interpreter form of the argument vector for every artifact
ArgvInterpreted(ex, tg) == <<ex, tg>>

\* lines 111-112: [target] for a compiled artifact, [executor, target] for an
\* interpreted one; str() of a path is its text
Argv(ex, tg) ==
    LET is_compiled == ex = COMPILED_LANGUAGE_PLACEHOLDER
    IN IF is_compiled THEN <<tg>> ELSE <<ex, tg>>

\* mutant: the archive is not looked for and the run goes on
ExtractNoCheck ==
    /\ pc = "extract"
    /\ test_cases' = archive
    /\ args' = Argv(executor, target)
    /\ results' = <<>>
    /\ idx' = 1
    /\ pc' = "for"
    /\ UNCHANGED << inputVars, ret, raised, memory_limit, time_limit, bodyVars,
                    procVars, procs, status, verdictLog, argvLog, fed >>

\* mutant: the loop resumes where an earlier call of _run left off
ExtractResumes ==
    /\ pc = "extract"
    /\ IF ~archive_exists
       THEN /\ pc' = "done"
            /\ ret' = "None"
            /\ UNCHANGED << test_cases, args, results, idx >>
       ELSE /\ test_cases' = archive
            /\ args' = Argv(executor, target)
            /\ results' = <<>>
            /\ idx' = IF idx = 0 THEN 1 ELSE idx
            /\ pc' = "for"
            /\ UNCHANGED ret
    /\ UNCHANGED << inputVars, raised, memory_limit, time_limit, bodyVars,
                    procVars, procs, status, verdictLog, argvLog, fed >>

\* lines 107-113 with _extract_test_cases
Extract ==
    /\ pc = "extract"
    /\ IF ~archive_exists
       THEN /\ pc' = "done"
            /\ ret' = "None"
            /\ UNCHANGED << test_cases, args, results, idx >>
       ELSE /\ test_cases' = archive
            /\ args' = Argv(executor, target)
            /\ results' = <<>>
            /\ idx' = 1
            /\ pc' = "for"
            /\ UNCHANGED ret
    /\ UNCHANGED << inputVars, raised, memory_limit, time_limit, bodyVars,
                    procVars, procs, status, verdictLog, argvLog, fed >>

\* mutant: the loop is left at the first verdict that is not ACCEPTED
ForFailFast ==
    /\ pc = "for"
    /\ IF idx > Len(test_cases) \/ verdict \notin {"", _A}
       THEN /\ pc' = "done"
            /\ ret' = "list"
       ELSE /\ pc' = "Popen"
            /\ UNCHANGED ret
    /\ memory_usage' = 0
    /\ time_executed' = 0
    /\ rcode_run' = None
    /\ verdict' = ""
    /\ output' = <<>>
    /\ pmmusage' = 0
    /\ time_poll' = 0
    /\ rcode' = None
    /\ returncode' = None
    /\ out_size' = 0
    /\ signals' = <<>>
    /\ now' = 0
    /\ status' = None
    /\ peak_seen' = 0
    /\ fed' = "none"
    /\ UNCHANGED << inputVars, raised, runVars, idx, procs, verdictLog, argvLog >>

\* line 115-116: the next test case and a fresh temporary file, or line 131
\* once the list is exhausted.  The locals of the finished iteration are dead
\* here (all are assigned before they are read again) and are reset.
For ==
    /\ pc = "for"
    /\ IF idx > Len(test_cases)
       THEN /\ pc' = "done"
            /\ ret' = "list"
       ELSE /\ pc' = "Popen"
            /\ UNCHANGED ret
    /\ memory_usage' = 0
    /\ time_executed' = 0
    /\ rcode_run' = None
    /\ verdict' = ""
    /\ output' = <<>>
    /\ pmmusage' = 0
    /\ time_poll' = 0
    /\ rcode' = None
    /\ returncode' = None
    /\ out_size' = 0
    /\ signals' = <<>>
    /\ now' = 0
    /\ status' = None
    /\ peak_seen' = 0
    /\ fed' = "none"
    /\ UNCHANGED << inputVars, raised, runVars, idx, procs, verdictLog, argvLog >>

\* lines 120-128: the verdict of the test case; the file's size is read
\* again and its text read back.  Nothing is appended to results.
Verdict ==
    /\ pc = "verdict"
    /\ \E text \in ChildOutputs :
       \E size \in {Len(text), _OUTPUT_LIMIT, _OUTPUT_LIMIT + 1} :
         /\ size >= out_size
         /\ out_size' = size
         /\ output' = text
         /\ verdict' = _get_verdict(time_limit, time_executed, memory_limit,
                                    memory_usage, rcode_run, size, text,
                                    test_cases[idx].out)
    /\ verdictLog' = Append(verdictLog, verdict')
    /\ idx' = idx + 1
    /\ pc' = "for"
    /\ UNCHANGED << inputVars, ret, raised, runVars, memory_usage,
                    time_executed, rcode_run, pmmusage, time_poll, rcode,
                    returncode, signals, now, procs, status, peak_seen, argvLog, fed >>

\* ------------------------------------------------- _create_process
to_mb(v) == v \div _MEGABYTE

\* proc.memory_info().rss of a running child, in bytes
RssSamples == {k * _MEGABYTE : k \in 0..MaxRss}

\* constructing a Popen first polls the children of dropped Popen objects
\* that had not died yet, reaping those that have died since
Cleanup(ps) == [i \in DOMAIN ps |-> Drop(ps[i])]

\* lines 197-199: spawn the child of the test case
Popen ==
    /\ pc = "Popen"
    /\ \/ /\ procs' = [Cleanup(procs) EXCEPT ![idx] = "running"]
          /\ pc' = "feed"
          /\ UNCHANGED << ret, raised >>
       \/ /\ Raise("OSError")
          /\ procs' = Cleanup(procs)
    /\ argvLog' = Append(argvLog, args)
    /\ UNCHANGED << inputVars, runVars, idx, bodyVars, procVars, status,
                    verdictLog, fed >>

\* mutant: a failed write is not caught and leaves _run
FeedUncaught ==
    /\ pc = "feed"
    /\ \/ /\ procs[idx] = "running"
          /\ fed' = "closed"
          /\ pc' = "attach"
          /\ UNCHANGED << ret, raised >>
       \/ /\ fed' = "OSError"
          /\ Raise("OSError")
    /\ UNCHANGED << inputVars, runVars, idx, bodyVars, procVars, procs, status,
                    verdictLog, argvLog >>

\* lines 200-205: write the input and close stdin.  The write ends when the
\* child has taken the input or the pipe holds it; it fails with
\* BrokenPipeError, an OSError, when the child has exited or has closed its
\* stdin, which is passed over; and it blocks while the pipe is full and the
\* child, still running, does not read.
Feed ==
    /\ pc = "feed"
    /\ \/ /\ procs[idx] = "running"
          /\ fed' = "closed"
          /\ pc' = "attach"
       \/ /\ fed' = "OSError"
          /\ pc' = "attach"
       \/ /\ procs[idx] = "running"
          /\ fed' = fed
          /\ pc' = "blocked"
    /\ UNCHANGED << inputVars, ret, raised, runVars, idx, bodyVars, procVars,
                    procs, status, verdictLog, argvLog >>

\* lines 202-205, the blocked write failing: the child has exited and the
\* pipe has no reader left
FeedBroken ==
    /\ pc = "blocked"
    /\ procs[idx] = "zombie"
    /\ fed' = "OSError"
    /\ pc' = "attach"
    /\ UNCHANGED << inputVars, ret, raised, runVars, idx, bodyVars, procVars,
                    procs, status, verdictLog, argvLog >>

\* lines 207-211: psutil.Process(subproc.pid)
Attach ==
    /\ pc = "attach"
    /\ \/ /\ pc' = "sample0"
          /\ UNCHANGED << ret, raised, memory_usage, time_executed, rcode_run,
                          procs >>
       \/ /\ procs[idx] = "zombie"          \* psutil.NoSuchProcess
          /\ Return(0, 0, status, "reaped")  \* subproc.wait()
          /\ UNCHANGED << ret, raised >>
       \/ /\ Raise("AccessDenied")
          /\ UNCHANGED << memory_usage, time_executed, rcode_run, procs >>
    /\ UNCHANGED << inputVars, runVars, idx, verdict, output, procVars, status,
                    verdictLog, argvLog, fed >>

\* lines 213-217: start the clock and take the first memory sample
Sample0 ==
    /\ pc = "sample0"
    /\ \/ /\ \E v \in RssSamples :
               /\ procs[idx] = "zombie" => v = 0
               /\ pmmusage' = to_mb(v)
               /\ peak_seen' = v
          /\ now' = 0
          /\ pc' = "while"
          /\ UNCHANGED << ret, raised, memory_usage, time_executed, rcode_run,
                          procs >>
       \/ /\ procs[idx] = "zombie"          \* psutil.NoSuchProcess
          /\ Return(pmmusage, time_poll, status, "reaped")
          /\ UNCHANGED << ret, raised, pmmusage, now, peak_seen >>
       \/ /\ Raise("AccessDenied")
          /\ UNCHANGED << memory_usage, time_executed, rcode_run, procs,
                          pmmusage, now, peak_seen >>
    /\ UNCHANGED << inputVars, runVars, idx, verdict, output, time_poll, rcode,
                    returncode, out_size, signals, status, verdictLog, argvLog, fed >>

\* the sizes fstat may report for the output file once it was seen at size s
SizesFrom(s) == {z \in {s, _OUTPUT_LIMIT, _OUTPUT_LIMIT + 1} : z >= s}

\* mutant: the size of the output file is not part of the loop condition
WhileNoSizeCheck ==
    /\ pc = "while"
    /\ \/ /\ procs[idx] = "zombie"          \* subproc.poll() is not None
          /\ returncode' = status
          /\ procs' = [procs EXCEPT ![idx] = "reaped"]
          /\ pc' = "teardown"
          /\ UNCHANGED << ret, raised, memory_usage, time_executed, rcode_run,
                          pmmusage, time_poll, out_size, now, status, peak_seen >>
       \/ /\ procs[idx] = "running"
          /\ \E v \in RssSamples, z \in SizesFrom(out_size), dt \in 1..MaxDt :
               LET pm == Max(pmmusage, to_mb(v)) IN
               /\ pmmusage' = pm
               /\ peak_seen' = Max(peak_seen, v)
               /\ IF pm < memory_limit
                  THEN /\ time_poll' = now
                       /\ IF now < time_limit
                          THEN /\ out_size' = z
                               /\ IF z >= 0           
                                  THEN /\ now' = now + dt   \* time.sleep(0.01)
                                       /\ pc' = "while"
                                  ELSE /\ pc' = "teardown"
                                       /\ UNCHANGED now
                          ELSE /\ pc' = "teardown"
                               /\ UNCHANGED << out_size, now >>
                  ELSE /\ pc' = "teardown"
                       /\ UNCHANGED << time_poll, out_size, now >>
          /\ UNCHANGED << ret, raised, memory_usage, time_executed, rcode_run,
                          returncode, procs, status >>
       \/ /\ procs[idx] = "running"          \* the child exits after poll():
          /\ \E c \in ExitCodes :            \* psutil.NoSuchProcess
               /\ status' = c
               /\ Return(pmmusage, time_poll, c, "reaped")
          /\ UNCHANGED << ret, raised, pmmusage, time_poll, returncode,
                          out_size, now, peak_seen >>
       \/ /\ procs[idx] = "running"
          /\ Raise("AccessDenied")
          /\ UNCHANGED << memory_usage, time_executed, rcode_run, pmmusage,
                          time_poll, returncode, out_size, now, procs, status,
                          peak_seen >>
    /\ UNCHANGED << inputVars, runVars, idx, verdict, output, rcode, signals,
                    verdictLog, argvLog, fed >>

\* lines 218-226: one evaluation of the loop condition, left to right with
\* short circuit, and the sleep when it holds
While ==
    /\ pc = "while"
    /\ \/ /\ procs[idx] = "zombie"          \* subproc.poll() is not None
          /\ returncode' = status
          /\ procs' = [procs EXCEPT ![idx] = "reaped"]
          /\ pc' = "teardown"
          /\ UNCHANGED << ret, raised, memory_usage, time_executed, rcode_run,
                          pmmusage, time_poll, out_size, now, status, peak_seen >>
       \/ /\ procs[idx] = "running"
          /\ \E v \in RssSamples, z \in SizesFrom(out_size), dt \in 1..MaxDt :
               LET pm == Max(pmmusage, to_mb(v)) IN
               /\ pmmusage' = pm
               /\ peak_seen' = Max(peak_seen, v)
               /\ IF pm < memory_limit
                  THEN /\ time_poll' = now
                       /\ IF now < time_limit
                          THEN /\ out_size' = z
                               /\ IF z < _OUTPUT_LIMIT
                                  THEN /\ now' = now + dt   \* time.sleep(0.01)
                                       /\ pc' = "while"
                                  ELSE /\ pc' = "teardown"
                                       /\ UNCHANGED now
                          ELSE /\ pc' = "teardown"
                               /\ UNCHANGED << out_size, now >>
                  ELSE /\ pc' = "teardown"
                       /\ UNCHANGED << time_poll, out_size, now >>
          /\ UNCHANGED << ret, raised, memory_usage, time_executed, rcode_run,
                          returncode, procs, status >>
       \/ /\ procs[idx] = "running"          \* the child exits after poll():
          /\ \E c \in ExitCodes :            \* psutil.NoSuchProcess
               /\ status' = c
               /\ Return(pmmusage, time_poll, c, "reaped")
          /\ UNCHANGED << ret, raised, pmmusage, time_poll, returncode,
                          out_size, now, peak_seen >>
       \/ /\ procs[idx] = "running"
          /\ Raise("AccessDenied")
          /\ UNCHANGED << memory_usage, time_executed, rcode_run, pmmusage,
                          time_poll, returncode, out_size, now, procs, status,
                          peak_seen >>
    /\ UNCHANGED << inputVars, runVars, idx, verdict, output, rcode, signals,
                    verdictLog, argvLog, fed >>

\* mutant: the graceful stop is sent whether or not the child has exited
TeardownStopsExited ==
    /\ pc = "teardown"
    /\ \/ /\ returncode # None               \* polled in the loop
          /\ rcode' = returncode
          /\ Return(pmmusage, time_poll, returncode, procs[idx])
          /\ UNCHANGED << returncode, signals, status >>
       \/ /\ returncode = None
          /\ procs[idx] = "zombie"           \* exited since the loop ended
          /\ rcode' = status
          /\ returncode' = status
          /\ Return(pmmusage, time_poll, status, "reaped")
          /\ UNCHANGED << signals, status >>
       \/ /\ procs[idx] \in {"running", "zombie", "reaped"}
          /\ signals' = Append(signals, "TERM")
          /\ pc' = "grace"
          /\ UNCHANGED << memory_usage, time_executed, rcode_run, rcode,
                          returncode, procs, status >>
       \/ /\ returncode = None
          /\ procs[idx] = "running"          \* the child exits after poll():
          /\ \E c \in ExitCodes :            \* terminate() raises NoSuchProcess
               /\ status' = c
               /\ Return(pmmusage, time_poll, None, "zombie")
          /\ UNCHANGED << rcode, returncode, signals >>
    /\ UNCHANGED << inputVars, ret, raised, runVars, idx, verdict, output,
                    pmmusage, time_poll, out_size, now, peak_seen, verdictLog, argvLog, fed >>

\* lines 228-231 and 235-237: the exit status after the loop, and the
\* graceful stop of a child that has none
Teardown ==
    /\ pc = "teardown"
    /\ \/ /\ returncode # None               \* polled in the loop
          /\ rcode' = returncode
          /\ Return(pmmusage, time_poll, returncode, procs[idx])
          /\ UNCHANGED << returncode, signals, status >>
       \/ /\ returncode = None
          /\ procs[idx] = "zombie"           \* exited since the loop ended
          /\ rcode' = status
          /\ returncode' = status
          /\ Return(pmmusage, time_poll, status, "reaped")
          /\ UNCHANGED << signals, status >>
       \/ /\ returncode = None
          /\ procs[idx] = "running"          \* proc.terminate()
          /\ signals' = Append(signals, "TERM")
          /\ pc' = "grace"
          /\ UNCHANGED << memory_usage, time_executed, rcode_run, rcode,
                          returncode, procs, status >>
       \/ /\ returncode = None
          /\ procs[idx] = "running"          \* the child exits after poll():
          /\ \E c \in ExitCodes :            \* terminate() raises NoSuchProcess
               /\ status' = c
               /\ Return(pmmusage, time_poll, None, "zombie")
          /\ UNCHANGED << rcode, returncode, signals >>
    /\ UNCHANGED << inputVars, ret, raised, runVars, idx, verdict, output,
                    pmmusage, time_poll, out_size, now, peak_seen, verdictLog, argvLog, fed >>

\* mutant: the kill is sent without looking at the outcome of the wait
GraceAlwaysKills ==
    /\ pc = "grace"
    /\ \/ /\ procs[idx] \in {"running", "zombie"}
          /\ signals' = Append(signals, "KILL")
          /\ Return(pmmusage, time_poll, rcode, "killed")
          /\ UNCHANGED rcode
    /\ UNCHANGED << inputVars, ret, raised, runVars, idx, verdict, output,
                    pmmusage, time_poll, returncode, out_size, now, status,
                    peak_seen, verdictLog, argvLog, fed >>

\* lines 232-234 and 237: wait out the grace window, kill on TimeoutExpired
Grace ==
    /\ pc = "grace"
    /\ \/ /\ procs[idx] = "zombie"           \* proc.wait() returns the status
          /\ rcode' = status
          /\ Return(pmmusage, time_poll, status, "reaped")
          /\ UNCHANGED signals
       \/ /\ procs[idx] = "running"          \* TimeoutExpired: proc.kill()
          /\ signals' = Append(signals, "KILL")
          /\ Return(pmmusage, time_poll, rcode, "killed")
          /\ UNCHANGED rcode
    /\ UNCHANGED << inputVars, ret, raised, runVars, idx, verdict, output,
                    pmmusage, time_poll, returncode, out_size, now, status,
                    peak_seen, verdictLog, argvLog, fed >>

\* ------------------------------------------------------ environment
InCreateProcess ==
    pc \in {"feed", "blocked", "attach", "sample0", "while", "teardown", "grace"}

\* the current child exits: on its own, or on SIGTERM once that was sent
ChildExits ==
    /\ InCreateProcess
    /\ procs[idx] = "running"
    /\ \E c \in ExitCodes \cup (IF signals = <<>> THEN {} ELSE {Terminated}) :
         status' = c
    /\ procs' = [procs EXCEPT ![idx] = "zombie"]
    /\ UNCHANGED << inputVars, pc, ret, raised, runVars, idx, bodyVars,
                    procVars, verdictLog, argvLog, fed >>

\* the child reads what the pipe holds and the blocked write of lines 202-203
\* goes through
ChildReads ==
    /\ pc = "blocked"
    /\ procs[idx] = "running"
    /\ fed' = "closed"
    /\ pc' = "attach"
    /\ UNCHANGED << inputVars, ret, raised, runVars, idx, bodyVars, procVars,
                    procs, status, verdictLog, argvLog >>

\* SIGKILL takes effect on a child it was sent to
KillTakesEffect ==
    /\ \E i \in 1..MaxTests :
         /\ procs[i] = "killed"
         /\ procs' = [procs EXCEPT ![i] = "zombie"]
    /\ UNCHANGED << inputVars, pc, ret, raised, runVars, idx, bodyVars,
                    procVars, status, verdictLog, argvLog, fed >>

Next ==
    \/ Parse
    \/ Extract
    \/ For
    \/ Popen
    \/ Feed
    \/ FeedBroken
    \/ Attach
    \/ Sample0
    \/ While
    \/ Teardown
    \/ Grace
    \/ Verdict
    \/ ChildExits
    \/ ChildReads
    \/ KillTakesEffect

Spec == Init /\ [][Next]_vars

\* --------------------------------------- _get_verdict on arbitrary texts
\* The verdict function applied once to an expected text of at most MaxLen
\* characters and an output one character longer at most, after a child that
\* exited on its own, with either exit status, just as the loop ended on the
\* time limit.
TextChars == {"a", "A", " ", "\n"}
Texts(n) == UNION {[1..k -> TextChars] : k \in 0..n}

InitVerdict ==
    /\ SubmitIdle
    /\ ExtractIdle
    /\ DisplayIdle
    /\ target = <<Cwd, "main", "">>
    /\ executor = COMPILED_LANGUAGE_PLACEHOLDER
    /\ args = <<target>>
    /\ argvLog = <<args>>
    /\ fed = "closed"
    /\ run = 1
    /\ firstAccepted = FALSE
    /\ manifest_entry = [memory_limit |-> <<"2">>, time_limit |-> <<"1">>]
    /\ archive_exists = TRUE
    /\ \E e \in Texts(MaxLen) : archive = <<[in |-> <<>>, out |-> e]>>
    /\ pc = "verdict"
    /\ ret = "pending"
    /\ raised = "none"
    /\ memory_limit = float(manifest_entry.memory_limit)
    /\ time_limit = float(manifest_entry.time_limit)
    /\ test_cases = archive
    /\ results = <<>>
    /\ idx = 1
    /\ memory_usage = memory_limit - 1
    /\ time_executed = time_limit
    /\ rcode_run \in ExitCodes
    /\ verdict = ""
    /\ pmmusage = memory_usage
    /\ time_poll = time_executed
    /\ rcode = rcode_run
    /\ returncode = rcode_run
    /\ out_size = 0
    /\ output = <<>>
    /\ signals = <<>>
    /\ now = time_poll
    /\ procs = [i \in 1..MaxTests |-> IF i = 1 THEN "reaped" ELSE "unborn"]
    /\ status = rcode_run
    /\ peak_seen = pmmusage * _MEGABYTE
    /\ verdictLog = <<>>

\* lines 120-128 for an output file holding text
GetVerdict ==
    /\ pc = "verdict"
    /\ \E text \in Texts(MaxLen + 1) :
         /\ out_size' = Len(text)
         /\ output' = text
         /\ verdict' = _get_verdict(time_limit, time_executed, memory_limit,
                                    memory_usage, rcode_run, Len(text), text,
                                    test_cases[idx].out)
    /\ verdictLog' = Append(verdictLog, verdict')
    /\ idx' = idx + 1
    /\ pc' = "for"
    /\ UNCHANGED << inputVars, ret, raised, runVars, memory_usage,
                    time_executed, rcode_run, pmmusage, time_poll, rcode,
                    returncode, signals, now, procs, status, peak_seen, argvLog, fed >>

NextVerdict == GetVerdict

SpecVerdict == InitVerdict /\ [][NextVerdict]_vars

\* =============================================================== claims
Verdicts == {_A, _WA, _TLE, _MLE, _RTE, _OLE}

\* the verdict of test case idx - 1 has just been derived, and the locals of
\* its iteration are still in place
Judged == pc = "for" /\ verdict # ""
JudgedCase == test_cases[idx - 1]

\* the supervising loop ended on the time limit alone, and the child, still
\* running, was sent the graceful stop
StoppedOnTime ==
    /\ signals # <<>>
    /\ pmmusage < memory_limit
    /\ time_poll >= time_limit
    /\ out_size < _OUTPUT_LIMIT

\* C1: a result list that _run returns has one entry per test case, entry i
\* being the verdict derived for test case i.
C1_OneResultPerTestCase ==
    ret = "list" =>
        /\ Len(results) = Len(test_cases)
        /\ \A i \in 1..Len(test_cases) : results[i].verdict = verdictLog[i]

\* C2: the verdict follows the priority memory > exit status > time > output
\* size > token comparison, the first check that fires deciding it.
C2_VerdictPriority ==
    Judged =>
        /\ verdict \in Verdicts
        /\ memory_usage > memory_limit => verdict = _MLE
        /\ (memory_usage <= memory_limit /\ rcode_run # 0) => verdict = _RTE
        /\ (memory_usage <= memory_limit /\ rcode_run = 0
              /\ time_executed > time_limit) => verdict = _TLE
        /\ (memory_usage <= memory_limit /\ rcode_run = 0
              /\ time_executed <= time_limit /\ out_size > _OUTPUT_LIMIT)
             => verdict = _OLE
        /\ (memory_usage <= memory_limit /\ rcode_run = 0
              /\ time_executed <= time_limit /\ out_size <= _OUTPUT_LIMIT)
             => verdict \in {_A, _WA}

\* a non-zero exit status gives RUNTIME ERROR although the output matches and
\* the time limit was passed
C2_Witness ==
    /\ Judged
    /\ verdict = _RTE
    /\ rcode_run = 1
    /\ time_executed > time_limit
    /\ output = JudgedCase.out

\* C3: a test case whose child was still running when the time limit was
\* reached, and was stopped for it, gets TIME LIMIT EXCEEDED.
C3_TimeStopIsTLE ==
    (Judged /\ StoppedOnTime) => verdict = _TLE

\* C4: whenever _create_process has returned, the child of the test case has
\* exited and has been waited for.
C4_ReapedOnReturn ==
    pc = "verdict" => procs[idx] = "reaped"

\* C5: at most one child is alive, and the child of test case i is reaped
\* before the child of test case i + 1 is spawned.
C5_OneLiveChild ==
    /\ Cardinality({i \in 1..MaxTests : Alive(i)}) <= 1
    /\ \A i \in 1..(MaxTests - 1) :
         procs[i + 1] # "unborn" => procs[i] = "reaped"

\* C6: a test case with a memory sample above the memory limit gets MEMORY
\* LIMIT EXCEEDED, and the peak memory returned for it is above the limit.
C6_MemoryExceeded ==
    (Judged /\ peak_seen > memory_limit * _MEGABYTE) =>
        /\ verdict = _MLE
        /\ memory_usage > memory_limit

\* the sample above the limit ended the loop and the child was stopped
C6_Witness ==
    /\ Judged
    /\ peak_seen > memory_limit * _MEGABYTE
    /\ signals # <<>>
    /\ rcode_run = Terminated
    /\ verdict = _MLE

\* C7: without an archive no child is ever spawned and no result list is
\* returned; _run, called with numeric limits, returns None.
C7_NoArchiveNoRun ==
    ~archive_exists =>
        /\ Spawned = {}
        /\ ret # "list"
        /\ verdictLog = <<>>
        /\ (pc = "done" /\ raised = "none") => ret = "None"

C7_Witness ==
    /\ ~archive_exists
    /\ Len(archive) = MaxTests
    /\ pc = "done"
    /\ ret = "None"

\* C8: no verdict stops the run: a run that ends without an exception has
\* spawned and judged every test case, whatever the earlier verdicts were.
C8_NoFailFast ==
    (pc = "done" /\ archive_exists /\ raised = "none") =>
        /\ ret = "list"
        /\ Len(verdictLog) = Len(test_cases)
        /\ Spawned = 1..Len(test_cases)

\* the child of the first test case was killed, its verdict is not ACCEPTED,
\* and the second test case was run to its verdict
C8_Witness ==
    /\ pc = "done"
    /\ Len(verdictLog) = 2
    /\ verdictLog[1] # _A
    /\ procs[1] \in {"killed", "zombie"}
    /\ procs[2] = "reaped"

\* C9: an exception raised while a test case is spawned or supervised does
\* not leave _run.
LoopExceptions == {"OSError", "AccessDenied"}
C9_ExceptionContained ==
    raised \notin LoopExceptions

\* the tokens of a text, stated by position: a token starts at a character
\* that is not whitespace and follows whitespace or nothing, and runs up to
\* the last character before the next whitespace or the end
TokenStarts(s) ==
    {i \in 1..Len(s) : s[i] \notin Whitespace /\ (i = 1 \/ s[i - 1] \in Whitespace)}
TokenEnd(s, i) ==
    CHOOSE j \in i..Len(s) :
        /\ \A k \in i..j : s[k] \notin Whitespace
        /\ j = Len(s) \/ s[j + 1] \in Whitespace
NthStart(s, n) ==
    CHOOSE i \in TokenStarts(s) :
        Cardinality({j \in TokenStarts(s) : j < i}) = n - 1
TokenAt(s, n) == SubSeq(s, NthStart(s, n), TokenEnd(s, NthStart(s, n)))
SameTokens(a, b) ==
    /\ Cardinality(TokenStarts(a)) = Cardinality(TokenStarts(b))
    /\ \A n \in 1..Cardinality(TokenStarts(a)) : TokenAt(a, n) = TokenAt(b, n)

\* C10: when no memory, exit-status, time or size check fires, the verdict is
\* ACCEPTED exactly when output and expected output hold the same tokens in
\* the same order, and WRONG ANSWER otherwise, whatever whitespace separates
\* or surrounds the tokens.
C10_TokenComparison ==
    (Judged /\ memory_usage <= memory_limit /\ rcode_run = 0
       /\ time_executed <= time_limit /\ out_size <= _OUTPUT_LIMIT) =>
        /\ verdict = _A <=> SameTokens(output, JudgedCase.out)
        /\ verdict # _A => verdict = _WA

\* accepted with other whitespace between and around the tokens
C10_Witness ==
    /\ Judged
    /\ rcode_run = 0
    /\ JudgedCase.out = <<"a", " ", "A">>
    /\ output = <<"a", "\n", "A", "\n">>
    /\ verdict = _A

\* C18: every child of a run is spawned with the argument vector [target]
\* when the executor is the compiled-language placeholder and with
\* [executor, target] otherwise, the same for every test case, and no step of
\* the run changes the artifact.
C18_ArgvOfArtifact ==
    /\ [](\A i \in 1..Len(argvLog) :
            argvLog[i] = IF executor = COMPILED_LANGUAGE_PLACEHOLDER
                         THEN <<target>>
                         ELSE <<executor, target>>)
    /\ [][target' = target /\ executor' = executor]_vars

\* two children of an interpreted artifact have been spawned
C18_Witness ==
    /\ Len(argvLog) >= 2
    /\ executor = BinPath("python")
    /\ argvLog[2] = <<BinPath("python"), (<<Cwd, "main", ".py">>)>>
    /\ Len(verdictLog) >= 1

\* =================================================== preprocess.py
\* lines 17-36 and 40
SUPPORTED_CPP_COMPILERS == <<"clang-cl", "clang", "g++">>
SUPPORTED_C_COMPILERS == <<"clang-cl", "clang", "gcc">>
JAVA_COMPILER == "javac"
\* mutant: the compiler binary taken for the launcher
LauncherIsCompiler == "javac"
JAVA_VM == "java"
SUPPORTED_COMPILED_LANGUAGE_EXTENSIONS == {".c", ".cpp", ".cxx", ".java"}
\* mutant: an extension without an interpreter counted as interpreted
InterpretedAndRust == {".py", ".rs"}
SUPPORTED_INTERPRETED_LANGUAGE_EXTENSIONS == {".py"}
\* mutant: a failed compiler is followed by the next candidate
_CHECK_EVERY_COMPILER == FALSE
_CHECK_ONLY_ONE_COMPILER == TRUE

\* the binaries the code looks for, and the extensions submitted
Binaries == {"clang-cl", "clang", "g++", "gcc", "javac", "java", "python"}
Extensions == {".c", ".cpp", ".cxx", ".java", ".py", ".rs", ""}
Directories == {"", Cwd}

\* shutil.which(name): the path of the binary, or None
which(name) == IF name \in on_path THEN BinPath(name) ELSE NoPath

\* how subprocess.run(args, check=True) ends: normally, with
\* CalledProcessError on a non-zero exit, or with another exception
\* (OSError when the binary cannot be executed)
RunOutcomes == {"ok", "CalledProcessError", "Exception"}

\* lines 85-93: the compiler list _dispatch_compiler hands to _compile_c_like
CompilersOf(extension) ==
    IF extension = ".c" THEN SUPPORTED_C_COMPILERS ELSE SUPPORTED_CPP_COMPILERS

\* mutant: the executable has no suffix on any platform
NoExecutableExtension(name) == ""
\* line 171
executable_extension(name) == IF name = "nt" THEN ".exe" ELSE ""

\* mutant: the path of the executable even when nothing was compiled
CompileResultAlways(done, path) == resolve(path)
\* lines 201-203
CompileResult(done, path) == IF ~done THEN NoPath ELSE resolve(path)

\* the state in which preprocess(source_file, manifest_entry) is entered;
\* the manifest entry is only kept for messages (lines 59-60)
InitPreprocess ==
    /\ RunIdle
    /\ ExtractIdle
    /\ DisplayIdle
    /\ online = FALSE
    /\ source_file \in Directories \X {"main"} \X Extensions
    /\ os_name \in {"posix", "nt"}
    /\ on_path \in SUBSET Binaries
    /\ ppc = "preprocess"
    /\ ci = 0
    /\ compiled = FALSE
    /\ looked = <<>>
    /\ invoked = <<>>
    /\ artifact = <<>>
    /\ target = NoPath
    /\ executor = NoPath

envVars == << online, source_file, os_name, on_path >>

\* lines 53-67: the locals start as None and the extension selects the branch
Preprocess ==
    /\ ppc = "preprocess"
    /\ target' = NoPath
    /\ executor' = NoPath
    /\ LET extension == source_file[3]
       IN IF extension \in SUPPORTED_COMPILED_LANGUAGE_EXTENSIONS
          THEN /\ ppc' = IF extension = ".java" THEN "_compile_java"
                         ELSE "_compile_c_like"
               /\ ci' = 1
          ELSE /\ ppc' = IF extension \in SUPPORTED_INTERPRETED_LANGUAGE_EXTENSIONS
                         THEN "_dispatch_interpreter"
                         ELSE "return"
               /\ ci' = ci
    /\ UNCHANGED << judgeVars, extractVars, displayVars, envVars, compiled,
                    looked, invoked, artifact >>

\* lines 174-199: one pass of the loop over the compilers
CompileCLike ==
    /\ ppc = "_compile_c_like"
    /\ ci <= Len(CompilersOf(source_file[3]))
    /\ LET compiler == CompilersOf(source_file[3])[ci]
           compiler_path == which(compiler)
           executable_path ==
               with_suffix(source_file, executable_extension(os_name))
       IN /\ looked' = Append(looked, compiler)
          /\ IF compiler_path = NoPath
             THEN /\ ci' = ci + 1
                  /\ UNCHANGED << ppc, compiled, invoked >>
             ELSE \E r \in RunOutcomes :
                    /\ invoked' = Append(invoked,
                           [bin |-> compiler_path, src |-> source_file,
                            out |-> executable_path, result |-> r])
                    /\ compiled' = (r = "ok")
                    /\ IF r = "ok" \/ _CHECK_ONLY_ONE_COMPILER
                       THEN ppc' = "break" /\ ci' = ci
                       ELSE ppc' = ppc /\ ci' = ci + 1
    /\ UNCHANGED << judgeVars, extractVars, displayVars, envVars, artifact,
                    target, executor >>

\* lines 201-203, and lines 63-64 of the caller
CompileCLikeReturn ==
    /\ \/ ppc = "break"
       \/ ppc = "_compile_c_like" /\ ci > Len(CompilersOf(source_file[3]))
    /\ target' = CompileResult(compiled,
                     with_suffix(source_file, executable_extension(os_name)))
    /\ executor' = COMPILED_LANGUAGE_PLACEHOLDER
    /\ ppc' = "return"
    /\ UNCHANGED << judgeVars, extractVars, displayVars, envVars, ci, compiled,
                    looked, invoked, artifact >>

\* lines 120-137, and lines 63-64 of the caller
CompileJava ==
    /\ ppc = "_compile_java"
    /\ looked' = Append(looked, JAVA_COMPILER)
    /\ LET javac_path == which(JAVA_COMPILER)
       IN IF javac_path = NoPath
          THEN /\ target' = NoPath
               /\ UNCHANGED << compiled, invoked >>
          ELSE \E r \in RunOutcomes :
                 /\ invoked' = Append(invoked,
                        [bin |-> javac_path, src |-> source_file,
                         out |-> NoPath, result |-> r])
                 /\ compiled' = (r = "ok")
                 /\ target' = IF r = "ok"
                              THEN with_suffix(source_file, ".class")
                              ELSE NoPath
    /\ executor' = COMPILED_LANGUAGE_PLACEHOLDER
    /\ ppc' = "return"
    /\ UNCHANGED << judgeVars, extractVars, displayVars, envVars, ci,
                    artifact >>

\* lines 66-67 and 105-110
DispatchInterpreter ==
    /\ ppc = "_dispatch_interpreter"
    /\ target' = source_file
    /\ IF source_file[3] = ".py"
       THEN /\ looked' = Append(looked, "python")
            /\ executor' = which("python")
       ELSE /\ looked' = looked
            /\ executor' = NoPath
    /\ ppc' = "return"
    /\ UNCHANGED << judgeVars, extractVars, displayVars, envVars, ci, compiled,
                    invoked, artifact >>

\* lines 69-74
PreprocessReturn ==
    /\ ppc = "return"
    /\ IF source_file[3] = ".java"
       THEN /\ looked' = Append(looked, JAVA_VM)
            /\ IF which(JAVA_VM) = NoPath
               THEN /\ artifact' = <<target, NoPath>>
                    /\ executor' = executor
               ELSE /\ executor' = which(JAVA_VM)
                    /\ artifact' = <<target, executor'>>
       ELSE /\ artifact' = <<target, executor>>
            /\ UNCHANGED << looked, executor >>
    /\ ppc' = "done"
    /\ UNCHANGED << judgeVars, extractVars, displayVars, envVars, ci, compiled,
                    invoked, target >>

NextPreprocess ==
    \/ Preprocess
    \/ CompileCLike
    \/ CompileCLikeReturn
    \/ CompileJava
    \/ DispatchInterpreter
    \/ PreprocessReturn

SpecPreprocess == InitPreprocess /\ [][NextPreprocess]_vars

\* ------------------------------------------- claims about preprocess
CLikeSource == source_file # NoPath /\ source_file[3] \in {".c", ".cpp", ".cxx"}
Candidates == CompilersOf(source_file[3])
Resolvable == {i \in 1..Len(Candidates) : Candidates[i] \in on_path}
FirstResolvable == CHOOSE i \in Resolvable : \A j \in Resolvable : i <= j
Returned == ppc = "done"

\* C11: _compile_c_like runs at most one compiler per call.  It looks the
\* candidates up in list order, passes over those the search path does not
\* resolve, runs the first that resolves and looks no further; when that run
\* fails, by a non-zero exit or another exception, the result is None and no
\* later candidate has been run.
C11_AtMostOneCompiler ==
    CLikeSource =>
      /\ Len(invoked) <= 1
      /\ \A i \in 1..Len(looked) : looked[i] = Candidates[i]
      /\ ppc \in {"return", "done"} =>
           /\ looked = SubSeq(Candidates, 1,
                  IF Resolvable = {} THEN Len(Candidates) ELSE FirstResolvable)
           /\ Resolvable = {} => invoked = <<>> /\ target = NoPath
           /\ Resolvable # {} =>
                /\ Len(invoked) = 1
                /\ invoked[1].bin = BinPath(Candidates[FirstResolvable])
                /\ invoked[1].result # "ok" => target = NoPath

\* the first candidate does not resolve, the second is run and fails, and
\* the third, which resolves, has not been looked up
C11_Witness ==
    /\ Returned
    /\ source_file[3] = ".cpp"
    /\ on_path = {"clang", "g++"}
    /\ looked = <<"clang-cl", "clang">>
    /\ Len(invoked) = 1
    /\ invoked[1].bin = BinPath("clang")
    /\ invoked[1].result = "CalledProcessError"
    /\ artifact[1] = NoPath

Supported ==
    /\ source_file # NoPath
    /\ source_file[3] \in SUPPORTED_COMPILED_LANGUAGE_EXTENSIONS
                          \union SUPPORTED_INTERPRETED_LANGUAGE_EXTENSIONS
\* no candidate compiler, interpreter or launcher is on the search path
ToolchainUnavailable ==
    CASE source_file[3] = ".java" -> "javac" \notin on_path \/ "java" \notin on_path
      [] source_file[3] = ".py" -> "python" \notin on_path
      [] OTHER -> Resolvable = {}
\* the compiler that was run exited with a non-zero status
CompileError ==
    invoked # <<>> /\ invoked[Len(invoked)].result = "CalledProcessError"
PreprocessFailed == Returned /\ Supported /\ (ToolchainUnavailable \/ CompileError)

\* C12 as stated: whenever preprocess fails for a supported extension, because
\* nothing resolves on the search path or because the compiler exits non-zero,
\* the returned artifact is exactly (None, None).
C12_FailureIsNoneNone ==
    PreprocessFailed => artifact = <<NoPath, NoPath>>

\* C12 amended: whenever preprocess fails in one of these ways, at least one
\* component of the returned artifact is None.  The target is None exactly
\* when no compiler resolved or the compiler failed, and the executor is then
\* the placeholder (C, C++) or whatever the launcher lookup gave (Java); the
\* executor is None exactly when the interpreter or the launcher does not
\* resolve, and the target is then the source file (.py) or the outcome of the
\* compilation (Java).
C12_FailureHasNone ==
    PreprocessFailed =>
      /\ artifact[1] = NoPath \/ artifact[2] = NoPath
      /\ CASE source_file[3] = ".py" ->
                artifact = <<source_file, NoPath>>
           [] source_file[3] = ".java" ->
                /\ artifact[1] = NoPath <=>
                     ("javac" \notin on_path \/ invoked[1].result # "ok")
                /\ artifact[2] = NoPath <=> "java" \notin on_path
                /\ artifact[2] # NoPath => artifact[2] = BinPath("java")
           [] OTHER ->
                artifact = <<NoPath, COMPILED_LANGUAGE_PLACEHOLDER>>

\* a Java compile error with the launcher on the search path
C12_Witness ==
    /\ PreprocessFailed
    /\ source_file[3] = ".java"
    /\ CompileError
    /\ artifact = <<NoPath, BinPath("java")>>

\* C13: for a source file whose extension is on neither list, preprocess looks
\* nothing up on the search path, runs nothing, goes straight to its return
\* and returns an artifact with no target and no executor.
C13_UnsupportedExtension ==
    (source_file # NoPath
       /\ source_file[3] \notin {".c", ".cpp", ".cxx", ".java", ".py"}) =>
      /\ looked = <<>>
      /\ invoked = <<>>
      /\ ppc \in {"preprocess", "return", "done"}
      /\ Returned => artifact = <<NoPath, NoPath>>

\* a .rs file has been preprocessed with every binary on the search path
C13_Witness ==
    /\ Returned
    /\ source_file[3] = ".rs"
    /\ on_path = Binaries
    /\ artifact = <<NoPath, NoPath>>

CompileSucceeded == invoked # <<>> /\ invoked[Len(invoked)].result = "ok"
\* the source path with the platform's executable suffix, made absolute
ExpectedExecutable ==
    << IF source_file[1] = "" THEN "/work/" ELSE source_file[1],
       source_file[2],
       IF os_name = "nt" THEN ".exe" ELSE "" >>

\* C16 as stated: for every compiled-family source (.c, .cpp, .cxx, .java)
\* whose compilation succeeds, the target is the source stem with the
\* platform's executable suffix and the executor is the placeholder.
C16_CompiledArtifact ==
    (Returned /\ source_file[3] \in {".c", ".cpp", ".cxx", ".java"}
       /\ CompileSucceeded) =>
      artifact = <<ExpectedExecutable, COMPILED_LANGUAGE_PLACEHOLDER>>

\* C16 amended: for a .c, .cpp or .cxx source whose compilation succeeds, the
\* target is the absolute source path with its suffix replaced by the
\* platform's executable suffix (none on POSIX, .exe on Windows) and the
\* executor is the placeholder.
C16_CLikeArtifact ==
    (Returned /\ source_file[3] \in {".c", ".cpp", ".cxx"}
       /\ CompileSucceeded) =>
      artifact = <<ExpectedExecutable, COMPILED_LANGUAGE_PLACEHOLDER>>

\* a relative .cxx file has been compiled on Windows
C16_Witness ==
    /\ Returned
    /\ source_file = <<"", "main", ".cxx">>
    /\ os_name = "nt"
    /\ CompileSucceeded
    /\ artifact = <<(<<"/work/", "main", ".exe">>), COMPILED_LANGUAGE_PLACEHOLDER>>

JavaSource == source_file # NoPath /\ source_file[3] = ".java"

\* C17 as stated: for a .java source the compiler is looked up and run first
\* and the launcher is resolved only after it; the returned executor is the
\* launcher path exactly when the launcher resolves; and the launcher is the
\* executor only together with a successfully compiled target.
C17_JavaTwoSteps ==
    (JavaSource /\ Returned) =>
      /\ looked = <<"javac", "java">>
      /\ artifact[2] = BinPath("java") <=> "java" \in on_path
      /\ artifact[2] = BinPath("java") =>
           CompileSucceeded /\ artifact[1] = with_suffix(source_file, ".class")

\* C17 amended: for a .java source the compiler is looked up and run first
\* and the launcher is resolved after it, whether or not the compilation
\* succeeded; the returned executor is the launcher path exactly when the
\* launcher resolves and None otherwise; the target is the class file exactly
\* when the compilation succeeded and None otherwise, so the launcher can be
\* returned as executor next to a None target.
C17_JavaTwoStepsAnyTarget ==
    /\ (JavaSource /\ looked # <<>>) => looked[1] = "javac"
    /\ (JavaSource /\ Len(looked) > 1) =>
         /\ looked = <<"javac", "java">>
         /\ ppc = "done"
    /\ (JavaSource /\ Returned) =>
         /\ looked = <<"javac", "java">>
         /\ artifact[2] = BinPath("java") <=> "java" \in on_path
         /\ artifact[2] = NoPath <=> "java" \notin on_path
         /\ artifact[1] = IF CompileSucceeded
                          THEN with_suffix(source_file, ".class")
                          ELSE NoPath

\* the Java compiler could not be run and the launcher is the executor
C17_Witness ==
    /\ JavaSource
    /\ Returned
    /\ looked = <<"javac", "java">>
    /\ invoked # <<>>
    /\ invoked[1].result = "Exception"
    /\ artifact = <<NoPath, BinPath("java")>>

\* ======================================================== submit()
\* preprocess.py lines 43-45: the required positional parameters
PreprocessParameters == <<"source_file", "manifest_entry">>
\* submit.py line 83: the arguments of the call prep.preprocess(file)
PreprocessArguments == <<"file">>

\* the state in which submit(index, file, online) reaches its try block:
\* the manifest entry is loaded and the file path resolved (lines 53-60)
InitSubmit ==
    /\ ExtractIdle
    /\ DisplayIdle
    /\ RunIdle
    /\ online \in BOOLEAN
    /\ source_file \in {Cwd} \X {"main"} \X Extensions
    /\ os_name \in {"posix", "nt"}
    /\ on_path \in SUBSET Binaries
    /\ ppc = "submit"
    /\ ci = 0
    /\ compiled = FALSE
    /\ looked = <<>>
    /\ invoked = <<>>
    /\ artifact = <<>>
    /\ target = NoPath
    /\ executor = NoPath

prepVars == << ci, compiled, looked, invoked, artifact, target, executor >>

\* lines 61-65
Submit ==
    /\ ppc = "submit"
    /\ ppc' = IF online THEN "_online_submit" ELSE "_local_submit"
    /\ UNCHANGED << judgeVars, extractVars, displayVars, envVars, prepVars >>

\* lines 71-72: the body is pass
OnlineSubmit ==
    /\ ppc = "_online_submit"
    /\ ppc' = "done"
    /\ UNCHANGED << judgeVars, extractVars, displayVars, envVars, prepVars >>

\* line 83: Python binds the arguments of the call to the parameters of
\* preprocess before its body runs and raises TypeError when a required
\* parameter is left without an argument; the exception leaves _local_submit
LocalSubmit ==
    /\ ppc = "_local_submit"
    /\ IF Len(PreprocessArguments) = Len(PreprocessParameters)
       THEN ppc' = "preprocess" /\ raised' = raised
       ELSE ppc' = "except" /\ raised' = "TypeError"
    /\ UNCHANGED << manifest_entry, archive_exists, archive, pc, ret, idx,
                    runVars, bodyVars, procVars, procs, status, verdictLog,
                    argvLog, fed, twiceVars, extractVars, displayVars, envVars,
                    prepVars >>

\* lines 66-68: the exception is printed and submit returns
Except ==
    /\ ppc = "except"
    /\ ppc' = "done"
    /\ UNCHANGED << judgeVars, extractVars, displayVars, envVars, prepVars >>

NextSubmit ==
    \/ Submit
    \/ OnlineSubmit
    \/ LocalSubmit
    \/ Except

SpecSubmit == InitSubmit /\ [][NextSubmit]_vars

\* --------------------------------------------- claims about submit()
LocalSubmitDone == ppc = "done" /\ ~online
RunNotStarted == pc = "idle" /\ argvLog = <<>> /\ \A i \in DOMAIN procs : procs[i] = "unborn"

C15_LocalSubmitReachesRunner ==
    (LocalSubmitDone /\ Supported /\ ~ToolchainUnavailable /\ archive_exists) =>
      /\ artifact # <<>>
      /\ raised = "none"
      /\ pc # "idle"

\* ============================================ _extract_test_cases
\* lines 30-31, as texts
_TESTCASE_INPUT == <<".", "i", "n">>
_TESTCASE_OUTPUT == <<".", "o", "u", "t">>

\* str(i) for a natural number
DigitChar(d) == CHOOSE c \in Digits : DigitValue(c) = d
RECURSIVE Decimal(_)
Decimal(i) ==
    IF i < 10 THEN <<DigitChar(i)>>
    ELSE Append(Decimal(i \div 10), DigitChar(i % 10))

\* Path(member).suffix and .stem for a member without directories: the
\* suffix starts at the last point, unless that point opens the name
LastDot(name) ==
    LET dots == {i \in 2..Len(name) : name[i] = "."}
    IN IF dots = {} THEN Len(name) + 1
       ELSE CHOOSE i \in dots : \A j \in dots : j <= i
suffix(name) == SubSeq(name, LastDot(name), Len(name))
stem(name) == SubSeq(name, 1, LastDot(name) - 1)

\* UTF-8 for the characters of the model's texts, all of them ASCII
Ord(c) == IF c = "\n" THEN 10 ELSE 48 + DigitValue(c)
Chr(b) == IF b = 10 THEN "\n" ELSE DigitChar(b - 48)
encode(text) == [i \in 1..Len(text) |-> Ord(text[i])]
decode(bytes) == [i \in 1..Len(bytes) |-> Chr(bytes[i])]

\* the texts stored in the archive: the input of test i is its number and
\* the expected output is twice that number on a line of its own
InputOf(i) == Decimal(i)
OutputOf(i) == Append(Decimal(2 * i), "\n")
\* archive.read(member): the bytes stored under the name
read(member) ==
    LET i == IntValue(stem(member))
    IN encode(IF suffix(member) = _TESTCASE_INPUT THEN InputOf(i)
              ELSE OutputOf(i))

\* the member names of a well-formed archive of n tests, and the orders in
\* which the archive may list them
Members(n) ==
    {Decimal(i) \o e : i \in 1..n, e \in {_TESTCASE_INPUT, _TESTCASE_OUTPUT}}
Namelists(n) ==
    {s \in [1..(2 * n) -> Members(n)] :
        \A i, j \in 1..(2 * n) : s[i] = s[j] => i = j}

\* a dict as a function on its keys
EmptyDict == [k \in {} |-> <<>>]
SetItem(d, key, value) == [k \in DOMAIN d \union {key} |->
                             IF k = key THEN value ELSE d[k]]

\* mutant: the ordinal of the file name used as the index
SlotOfOrdinal(filename) == IntValue(filename)
\* line 261: the list index, counted from 0
Slot(filename) == IntValue(filename) - 1

\* the state in which _run calls _extract_test_cases (line 107), with the
\* member list of the archive, in the order the archive gives it
InitExtract ==
    /\ SubmitIdle
    /\ DisplayIdle
    /\ target = <<Cwd, "main", "">>
    /\ executor = COMPILED_LANGUAGE_PLACEHOLDER
    /\ manifest_entry = [memory_limit |-> <<"2">>, time_limit |-> <<"1">>]
    /\ archive_exists \in BOOLEAN
    /\ archive = <<>>
    /\ IF archive_exists
       THEN \E n \in 0..MaxTests : namelist \in Namelists(n)
       ELSE namelist = <<>>
    /\ ni = 0
    /\ testcases = <<>>
    /\ pc = "extract"
    /\ ret = "pending"
    /\ raised = "none"
    /\ memory_limit = float(manifest_entry.memory_limit)
    /\ time_limit = float(manifest_entry.time_limit)
    /\ test_cases = <<>>
    /\ results = <<>>
    /\ args = <<>>
    /\ idx = 0
    /\ memory_usage = 0
    /\ time_executed = 0
    /\ rcode_run = None
    /\ verdict = ""
    /\ pmmusage = 0
    /\ time_poll = 0
    /\ rcode = None
    /\ returncode = None
    /\ out_size = 0
    /\ output = <<>>
    /\ signals = <<>>
    /\ now = 0
    /\ procs = [i \in 1..MaxTests |-> "unborn"]
    /\ status = None
    /\ peak_seen = 0
    /\ verdictLog = <<>>
    /\ argvLog = <<>>
    /\ fed = "none"
    /\ run = 1
    /\ firstAccepted = FALSE

\* what no step of _extract_test_cases changes
extractFrame == << manifest_entry, archive_exists, archive, executor, target,
                   twiceVars, submitVars, displayVars, namelist, memory_limit, time_limit,
                   results, args, idx, bodyVars, procVars, procs, status,
                   verdictLog, argvLog, fed >>

\* lines 246-252: without the archive None is returned, and _run returns
\* None (lines 108-109); with it the list is sized by the member count
ExtractEnter ==
    /\ pc = "extract"
    /\ IF ~archive_exists
       THEN /\ pc' = "done"
            /\ ret' = "None"
            /\ UNCHANGED << ni, testcases >>
       ELSE /\ testcases' = [i \in 1..(Len(namelist) \div 2) |-> EmptyDict]
            /\ ni' = 1
            /\ pc' = "member"
            /\ ret' = ret
    /\ UNCHANGED << extractFrame, raised, test_cases >>

\* lines 254-261: one member; a list index below zero counts from the end
\* and one outside the list raises IndexError
Member ==
    /\ pc = "member"
    /\ ni <= Len(namelist)
    /\ LET member == namelist[ni]
           ext == suffix(member)
           filename == stem(member)
           n == Len(testcases)
           k == Slot(filename)
           archive_data == decode(read(member))
       IN IF ext \notin {_TESTCASE_INPUT, _TESTCASE_OUTPUT}
          THEN /\ ni' = ni + 1
               /\ UNCHANGED << pc, ret, raised, testcases >>
          ELSE IF k >= n \/ k < 0 - n
          THEN /\ Raise("IndexError")
               /\ UNCHANGED << ni, testcases >>
          ELSE /\ testcases' =
                    [testcases EXCEPT ![IF k >= 0 THEN k + 1 ELSE n + k + 1] =
                                          SetItem(@, ext, archive_data)]
               /\ ni' = ni + 1
               /\ UNCHANGED << pc, ret, raised >>
    /\ UNCHANGED << extractFrame, test_cases >>

\* line 262, received at line 107
ExtractReturn ==
    /\ pc = "member"
    /\ ni > Len(namelist)
    /\ test_cases' = testcases
    /\ pc' = "extracted"
    /\ UNCHANGED << extractFrame, ret, raised, ni, testcases >>

NextExtract ==
    \/ ExtractEnter
    \/ Member
    \/ ExtractReturn

SpecExtract == InitExtract /\ [][NextExtract]_vars

\* C19: for a well-formed archive with the members 1.in, 1.out .. N.in,
\* N.out listed in any order, _extract_test_cases returns a list of exactly
\* N test cases, and the i-th of them holds the decoded content of i.in under
\* the input key and the decoded content of i.out under the output key; no
\* member makes the extraction raise.
C19_BucketsByOrdinal ==
    /\ raised = "none"
    /\ pc = "extracted" =>
      /\ Len(test_cases) = Len(namelist) \div 2
      /\ \A i \in 1..Len(test_cases) :
           /\ DOMAIN test_cases[i] = {_TESTCASE_INPUT, _TESTCASE_OUTPUT}
           /\ test_cases[i][_TESTCASE_INPUT] =
                decode(read(Decimal(i) \o _TESTCASE_INPUT))
           /\ test_cases[i][_TESTCASE_INPUT] = InputOf(i)
           /\ test_cases[i][_TESTCASE_OUTPUT] =
                decode(read(Decimal(i) \o _TESTCASE_OUTPUT))
           /\ test_cases[i][_TESTCASE_OUTPUT] = OutputOf(i)

\* two tests have been extracted from an archive that lists 2.out first
C19_Witness ==
    /\ pc = "extracted"
    /\ namelist = << <<"2", ".", "o", "u", "t">>, <<"1", ".", "o", "u", "t">>,
                     <<"2", ".", "i", "n">>, <<"1", ".", "i", "n">> >>
    /\ test_cases[1][_TESTCASE_INPUT] = <<"1">>
    /\ test_cases[2][_TESTCASE_OUTPUT] = <<"4", "\n">>

\* ================================================ _display_results
\* the ANSI sequences of lines 281 and 283; a formatted text is the sequence
\* of its pieces, and "" is the empty sequence
GREEN == "ESC[1;32m"
RED == "ESC[1;31m"
RESET == "ESC[0m"

\* mutant: every entry counts as a failure
IsAnyVerdict(v) == TRUE
\* line 276
IsFailure(v) == v # "ACCEPTED"

\* the state in which _display_results(results, manifest_entry) is entered
InitDisplay ==
    /\ RunIdle
    /\ ExtractIdle
    /\ target = NoPath
    /\ executor = NoPath
    /\ online = FALSE
    /\ source_file = NoPath
    /\ os_name = "posix"
    /\ on_path = {}
    /\ ci = 0
    /\ compiled = FALSE
    /\ looked = <<>>
    /\ invoked = <<>>
    /\ artifact = <<>>
    /\ ppc = "_display_results"
    /\ \E n \in 0..MaxTests :
         result_rows \in [1..n -> [verdict : {_OLE, _TLE, _MLE, _RTE, _WA, _A}]]
    /\ di = 0
    /\ total_result = <<>>

displayFrame == << judgeVars, extractVars, envVars, prepVars, result_rows >>

\* lines 273-275
DisplayEnter ==
    /\ ppc = "_display_results"
    /\ total_result' = <<>>
    /\ di' = 1
    /\ ppc' = "for"
    /\ UNCHANGED displayFrame

\* lines 275-278: one result; the loop is left at the first failure
DisplayFor ==
    /\ ppc = "for"
    /\ di <= Len(result_rows)
    /\ IF IsFailure(result_rows[di].verdict)
       THEN /\ total_result' = <<result_rows[di].verdict>>
            /\ ppc' = "colour"
            /\ di' = di
       ELSE /\ di' = di + 1
            /\ UNCHANGED << total_result, ppc >>
    /\ UNCHANGED displayFrame

\* lines 279-283, after the loop has ended or was left
DisplayColour ==
    /\ \/ ppc = "colour"
       \/ ppc = "for" /\ di > Len(result_rows)
    /\ total_result' = IF total_result = <<>>
                       THEN <<GREEN, "ACCEPTED", RESET>>
                       ELSE <<RED>> \o total_result \o <<RESET>>
    /\ ppc' = "displayed"
    /\ UNCHANGED << displayFrame, di >>

NextDisplay ==
    \/ DisplayEnter
    \/ DisplayFor
    \/ DisplayColour

SpecDisplay == InitDisplay /\ [][NextDisplay]_vars

NotAccepted == {i \in 1..Len(result_rows) : result_rows[i].verdict # _A}
FirstNotAccepted == CHOOSE i \in NotAccepted : \A j \in NotAccepted : i <= j

\* C20: the headline result computed from a result sequence is the verdict of
\* the first entry that is not ACCEPTED (shown in red), and it is ACCEPTED
\* (shown in green) exactly when no entry is not ACCEPTED, the empty sequence
\* included.
C20_FirstFailureIsHeadline ==
    ppc = "displayed" =>
      /\ Len(total_result) = 3
      /\ total_result[2] = IF NotAccepted = {} THEN _A
                           ELSE result_rows[FirstNotAccepted].verdict
      /\ total_result[2] = _A <=> NotAccepted = {}
      /\ total_result[1] = IF NotAccepted = {} THEN GREEN ELSE RED
      /\ total_result[3] = RESET

\* the second of two results is the first failure
C20_Witness ==
    /\ ppc = "displayed"
    /\ Len(result_rows) = 2
    /\ result_rows[1].verdict = _A
    /\ result_rows[2].verdict = _TLE
    /\ total_result = <<RED, _TLE, RESET>>

\* ------------------------------------ claims about the limits of a run
\* a problem record as data._download_manifest_data stores it
PipelineRecord ==
    /\ manifest_entry.time_limit = <<"1", ".", "0", "0", " ", "s">>
    /\ manifest_entry.memory_limit = <<"2", " ", "M", "B">>

\* C22: for a problem record as the data pipeline produces it (time limit
\* "<float> s", memory limit "<float> MB") _run obtains the limits as numbers
\* of seconds and megabytes and goes on to the test cases.
C22_PipelineLimitsAreNumbers ==
    (PipelineRecord /\ pc # "parse") =>
      /\ raised # "ValueError"
      /\ time_limit = 1
      /\ memory_limit = 2

\* ------------------------------------ claims about _create_process
\* C23: the supervising loop sleeps and polls again only when the child has
\* not exited, the peak memory is below the memory limit, the elapsed time is
\* below the time limit and the output file is below 500 MB.  Whenever the
\* loop has ended, the child was seen to have exited, or the peak is at or
\* above the memory limit, or the elapsed time is at or above the time limit,
\* or the output is at or above 500 MB; and when the loop is left because the
\* child can no longer be inspected, the exit status returned is the one the
\* wait call gives.  (Exceptions other than NoSuchProcess are the subject of
\* C9.)
C23_LoopCondition ==
    /\ [](pc = "teardown" =>
            \/ returncode # None
            \/ pmmusage >= memory_limit
            \/ time_poll >= time_limit
            \/ out_size >= _OUTPUT_LIMIT)
    /\ [][(pc = "while" /\ pc' = "while" /\ now' # now) =>
            /\ returncode' = None
            /\ procs[idx] = "running"
            /\ pmmusage' < memory_limit
            /\ time_poll' < time_limit
            /\ out_size' < _OUTPUT_LIMIT]_vars
    /\ [][(pc \in {"sample0", "while"} /\ pc' = "verdict") =>
            /\ rcode_run' = status'
            /\ rcode_run' \in ExitCodes \cup {Terminated}
            /\ procs'[idx] = "reaped"]_vars

\* the loop has ended on the size of the output alone
C23_Witness ==
    /\ pc = "teardown"
    /\ returncode = None
    /\ pmmusage < memory_limit
    /\ time_poll < time_limit
    /\ out_size >= _OUTPUT_LIMIT
    /\ now > 0

\* C29: the peak memory _create_process tracks never decreases from one poll
\* to the next, is at least every resident-memory sample taken for the test
\* case, and is what the call returns: the largest sample, in megabytes.
C29_PeakIsMaximum ==
    /\ [](InCreateProcess => pmmusage = to_mb(peak_seen))
    /\ [][(InCreateProcess /\ pc' \in {"while", "teardown", "grace"}) =>
            pmmusage' >= pmmusage]_vars
    /\ [](pc = "verdict" => memory_usage = to_mb(peak_seen))

\* a peak of 2 MB is returned after several polls
C29_Witness ==
    /\ pc = "verdict"
    /\ memory_usage = 2
    /\ peak_seen = 2 * _MEGABYTE
    /\ now > 1

\* C28: whenever _create_process has returned, the exit code of the returned
\* sample is an integer exit status of the finished child, never None.
C28_ExitCodeIsInteger ==
    pc = "verdict" => rcode_run # None /\ rcode_run \in ExitCodes \cup {Terminated}

\* C25: when the loop has ended and the child is still alive, the graceful
\* stop is sent first and the kill only after the wait of the grace window
\* found the child still running.  A kill is never sent without a graceful
\* stop before it, and never to a child that exited within the window.
C25_TeardownOrder ==
    /\ [](signals \in {<<>>, <<"TERM">>, <<"TERM", "KILL">>})
    /\ [][(signals' # signals /\ pc # "for") =>
            IF signals = <<>>
            THEN /\ signals' = <<"TERM">>
                 /\ pc = "teardown"
                 /\ returncode = None
                 /\ procs[idx] = "running"
                 /\ pc' = "grace"
            ELSE /\ signals' = <<"TERM", "KILL">>
                 /\ pc = "grace"
                 /\ procs[idx] = "running"]_vars
    /\ [][(pc = "grace" /\ pc' = "verdict" /\ procs[idx] = "zombie") =>
            /\ signals' = <<"TERM">>
            /\ rcode_run' = status]_vars

\* a child that outlived the grace window has been killed
C25_Witness ==
    /\ pc = "verdict"
    /\ signals = <<"TERM", "KILL">>
    /\ procs[idx] = "killed"

LimitReached ==
    \/ pmmusage >= memory_limit
    \/ time_poll >= time_limit
    \/ out_size >= _OUTPUT_LIMIT

C30_StopGivesItsVerdict ==
    (Judged /\ signals # <<>>) =>
      /\ verdict \in {_MLE, _TLE, _OLE}
      /\ verdict = IF pmmusage >= memory_limit THEN _MLE
                   ELSE IF time_poll >= time_limit THEN _TLE
                   ELSE _OLE

\* C27: a broken pipe or another OS failure of the write to the child's stdin
\* does not abort the test: no exception leaves _create_process because of
\* it, the supervision of the child follows, and the sample of the test case
\* is returned.
C27_WriteFailureTolerated ==
    /\ [][(pc \in {"feed", "blocked"} /\ fed' = "OSError") =>
            /\ pc' = "attach"
            /\ raised' = "none"
            /\ ret' = "pending"]_vars
    /\ [](fed = "OSError" => raised # "OSError")
    /\ [](fed = "OSError" =>
            pc \in {"attach", "sample0", "while", "teardown", "grace",
                    "verdict", "for", "done"})
    /\ []((fed = "OSError" /\ pc = "done") => raised = "AccessDenied")

\* the child exited before it took its input, and its sample was returned
C27_Witness ==
    /\ pc = "verdict"
    /\ fed = "OSError"
    /\ procs[idx] = "reaped"
    /\ rcode_run \in ExitCodes


\* ------------------------------------------ the judge under fair scheduling
\* The steps of the judge's own thread: the interpreter runs it on whenever
\* it is not blocked in a system call.  Nothing is assumed of the child: it
\* need not exit, nor read its input, and the clock advances with each sleep
\* of the loop.
JudgeStep ==
    \/ Parse
    \/ Extract
    \/ For
    \/ Popen
    \/ Feed
    \/ FeedBroken
    \/ Attach
    \/ Sample0
    \/ While
    \/ Teardown
    \/ Grace
    \/ Verdict

SpecLive == Init /\ [][Next]_vars /\ WF_vars(JudgeStep)

\* C24: every call of _create_process eventually returns, whatever the
\* child does
C24_CreateProcessReturns ==
    (pc = "feed") ~> (pc \in {"verdict", "done"})

\* from the start of the supervision on, the call does return
SupervisionReturns ==
    (pc = "attach") ~> (pc \in {"verdict", "done"})


\* --------------------------------------------- _run called twice in a row
\* submit() is invoked again with the same file and problem once the first
\* call has returned its list.  The module keeps nothing between the calls:
\* what the first call leaves in the variables of the judge stays there until
\* the second assigns it.  The children of the first call are not those of
\* the second, and the histories start again.
Again ==
    /\ pc = "done"
    /\ ret = "list"
    /\ run = 1
    /\ run' = 2
    /\ firstAccepted' = (\A i \in DOMAIN verdictLog : verdictLog[i] = _A)
    /\ pc' = "parse"
    /\ ret' = "pending"
    /\ procs' = [i \in 1..MaxTests |-> "unborn"]
    /\ verdictLog' = <<>>
    /\ argvLog' = <<>>
    /\ UNCHANGED << manifest_entry, archive_exists, archive, executor, target,
                    submitVars, extractVars, displayVars, raised, runVars, idx,
                    bodyVars, procVars, status, fed >>

NextTwice ==
    \/ Next
    \/ Again

\* the first call is one that runs: a compiled artifact, limits that are
\* numbers, and the archive in place
InitTwice ==
    /\ Init
    /\ executor = COMPILED_LANGUAGE_PLACEHOLDER
    /\ manifest_entry = [memory_limit |-> <<"2">>, time_limit |-> <<"2", ".", "0">>]
    /\ archive_exists

SpecTwice == InitTwice /\ [][NextTwice]_vars

\* the state of the judge as a test case is started: the limits, the test
\* cases and the argument vector as the inputs give them, the position after
\* the verdicts derived so far, and nothing of an earlier test case or call
FreshTestCase ==
    /\ memory_limit = float(manifest_entry.memory_limit)
    /\ time_limit = float(manifest_entry.time_limit)
    /\ test_cases = archive
    /\ args = Argv(executor, target)
    /\ idx = Len(verdictLog) + 1
    /\ idx <= Len(archive)
    /\ memory_usage = 0
    /\ time_executed = 0
    /\ rcode_run = None
    /\ verdict = ""
    /\ output = <<>>
    /\ pmmusage = 0
    /\ time_poll = 0
    /\ rcode = None
    /\ returncode = None
    /\ out_size = 0
    /\ signals = <<>>
    /\ now = 0
    /\ status = None
    /\ fed = "none"
    /\ procs[idx] = "unborn"

\* C21: in a first and in a second call of _run on the same artifact, record
\* and archive, every test case is started from the same state, which the
\* inputs alone determine; its verdict is the same function of the inputs and
\* of what the child did; and a call that returns has judged every test case
\* of the archive.  So a child that behaves alike in both calls gets the same
\* verdicts in both.
C21_SecondRunAsFirst ==
    /\ pc = "Popen" => FreshTestCase
    /\ Judged =>
         /\ verdictLog[idx - 1] = verdict
         /\ verdict = _get_verdict(float(manifest_entry.time_limit),
                                   time_executed,
                                   float(manifest_entry.memory_limit),
                                   memory_usage, rcode_run, out_size, output,
                                   archive[idx - 1].out)
    /\ (pc = "done" /\ ret = "list") => Len(verdictLog) = Len(archive)

\* ACCEPTED on every test case of a full archive, both times
C21_Witness ==
    /\ run = 2
    /\ firstAccepted
    /\ pc = "done"
    /\ ret = "list"
    /\ Len(archive) = MaxTests
    /\ verdictLog = [i \in 1..MaxTests |-> _A]

====
